---- MODULE Spec2Model ----
(***************************************************************************)
(* Cover-letter job pipeline of JobApplicant-be: the BullMQ worker         *)
(* (src/src/worker.ts), the API server with its in-memory status map and   *)
(* queue-event handlers (src/unnamed/part_001, lines 735-1117), the CV     *)
(* helpers (src/unnamed/part_000) and the job store (src/src/supabase.ts). *)
(*                                                                         *)
(* Text is modelled as a sequence of lexemes: every punctuation character  *)
(* the code searches for is a lexeme of its own, a run of letters is one   *)
(* lexeme, and the fixed texts of the source (filler answer, padding,      *)
(* fallback opening and closing, the selected question) are one lexeme     *)
(* each.  CharLen gives a lexeme's length in characters and Spaces the     *)
(* number of blanks in it, so that String.length and split(' ').length     *)
(* are computed as the code computes them.  Indexes are 0-based and -1     *)
(* means "not found", as in JavaScript.                                    *)
(***************************************************************************)
EXTENDS Integers, Sequences, FiniteSets, TLC

\* ------------------------------------------------------------------ text

Q == "quote"
BS == "backslash"
NL == "newline"
LB == "{"
RB == "}"
COLON == ":"
COMMA == ","
SP == " "
DOT == "."

\* The filler answer of worker.ts:223 (and, with the same text, worker.ts:254).
CompleteAnswer == "completeAnswer"
\* The sentence appended to a short answer, worker.ts:246.
Padding == "padding"
\* The default fallback cover letter of worker.ts:257.
FallbackOpening == "fallbackOpening"
\* The closing appended in the catch block, worker.ts:272.
Closing == "closing"
\* One of the randomQuestions, worker.ts:104-120.
SelectedQuestion == "selectedQuestion"
\* A run of BlockWords words of letters and single blanks, without
\* punctuation: the bulk of a long answer of the generation backend.
WordBlock == "wordBlock"

\* split(' ').length of the filler answer: 93 words.
CompleteAnswerWords == 93
\* Blanks in the padding sentence (it starts with one): 40.
PaddingSpaces == 40
\* "Ensure answer is at least 100 words"
MinAnswerWords == 100
\* lastBrace < cleanResponse.length - 10
TruncationSlack == 10
\* Words of the WordBlock lexeme: one short of the minimum.
BlockWords == 99

CharLen(t) ==
    CASE t = "coverLetter" -> 11
      [] t = "question" -> 8
      [] t = "answer" -> 6
      [] t = "Dear" -> 4
      [] t = CompleteAnswer -> 623
      [] t = Padding -> 249
      [] t = FallbackOpening -> 177
      [] t = Closing -> 49
      [] t = SelectedQuestion -> 34
      [] t = WordBlock -> 6 * BlockWords - 1
      [] OTHER -> 1

Spaces(t) ==
    CASE t = SP -> 1
      [] t = CompleteAnswer -> CompleteAnswerWords - 1
      [] t = Padding -> PaddingSpaces
      [] t = WordBlock -> BlockWords - 1
      [] t = FallbackOpening -> 32
      [] t = Closing -> 5
      [] t = SelectedQuestion -> 5
      [] OTHER -> 0

\* F applied to the value of v: the value is computed once, however often F
\* uses it.
With(v, F(_)) == CHOOSE r \in {F(x) : x \in {v}} : TRUE

\* The characters, or the blanks, of the lexemes lo..hi of s, summed by
\* halves.
RECURSIVE SumBetween(_, _, _, _)
SumBetween(s, lo, hi, which) ==
    IF lo > hi THEN 0
    ELSE IF lo = hi THEN (IF which = "chars" THEN CharLen(s[lo]) ELSE Spaces(s[lo]))
    ELSE With((lo + hi) \div 2, LAMBDA mid :
             SumBetween(s, lo, mid, which) + SumBetween(s, mid + 1, hi, which))

SumOver(s, i, which) == With(s, LAMBDA v : SumBetween(v, i, Len(v), which))

\* String.prototype.length
Length(s) == SumOver(s, 1, "chars")

\* The character offset of the lexeme at 0-based lexeme index k.
CharOffset(s, k) == IF k <= 0 THEN k ELSE Length(SubSeq(s, 1, k))

\* str.split(' ').length
SplitLength(s) == SumOver(s, 1, "spaces") + 1

\* str.substring(from) and str.substring(from, to), 0-based lexeme indexes.
Substring(s, from) == SubSeq(s, from + 1, Len(s))

Substring2(s, from, to) == SubSeq(s, from + 1, to)

\* str.indexOf(pat, from): the first index >= from where pat occurs, or -1.
IndexOfFrom(s, pat, from) ==
    With({i \in from..(Len(s) - Len(pat)) : SubSeq(s, i + 1, i + Len(pat)) = pat},
         LAMBDA hits : IF hits = {} THEN -1 ELSE CHOOSE i \in hits : \A k \in hits : i <= k)

IndexOf(s, pat) == IndexOfFrom(s, pat, 0)

\* str.lastIndexOf(pat)
LastIndexOf(s, pat) ==
    With({i \in 0..(Len(s) - Len(pat)) : SubSeq(s, i + 1, i + Len(pat)) = pat},
         LAMBDA hits : IF hits = {} THEN -1 ELSE CHOOSE i \in hits : \A k \in hits : i >= k)

Includes(s, pat) == IndexOf(s, pat) # -1

IsSpace(t) == t \in {SP, NL}

\* str.trim()
TrimStart(s) ==
    With({i \in 1..Len(s) : ~IsSpace(s[i])},
         LAMBDA rest : IF rest = {} THEN <<>>
                       ELSE SubSeq(s, CHOOSE i \in rest : \A k \in rest : i <= k, Len(s)))

TrimEnd(s) ==
    With({i \in 1..Len(s) : ~IsSpace(s[i])},
         LAMBDA rest : IF rest = {} THEN <<>>
                       ELSE SubSeq(s, 1, CHOOSE i \in rest : \A k \in rest : i >= k))

Trim(s) == With(s, LAMBDA v : With(TrimStart(v), LAMBDA w : TrimEnd(w)))

\* str.replace(/pat/g, by) for a pattern of one lexeme or of two different
\* lexemes, so that no two occurrences overlap and every occurrence is
\* replaced.  The lexemes lo..hi are rewritten by halves around an
\* occurrence that covers the middle lexeme, or around that lexeme.
RECURSIVE ReplaceBetween(_, _, _, _, _)
ReplaceBetween(s, lo, hi, pat, by) ==
    IF lo > hi THEN <<>>
    ELSE With((lo + hi) \div 2, LAMBDA mid :
         With({k \in (mid - Len(pat) + 1)..mid :
                  k >= lo /\ k + Len(pat) - 1 <= hi /\ SubSeq(s, k, k + Len(pat) - 1) = pat},
              LAMBDA hits :
         IF hits = {}
         THEN ReplaceBetween(s, lo, mid - 1, pat, by) \o <<s[mid]>>
              \o ReplaceBetween(s, mid + 1, hi, pat, by)
         ELSE With(CHOOSE k \in hits : \A m \in hits : k <= m, LAMBDA k :
              ReplaceBetween(s, lo, k - 1, pat, by) \o by
              \o ReplaceBetween(s, k + Len(pat), hi, pat, by))))

ReplaceAll(s, pat, by) == With(s, LAMBDA v : ReplaceBetween(v, 1, Len(v), pat, by))

\* ------------------------------------------------------------ JSON.parse

\* A JSON value: a string (its decoded lexemes), a number, or undefined.
Str(v) == [t |-> "str", v |-> v]
Num == [t |-> "num", v |-> <<"1">>]
Undefined == [t |-> "undefined", v |-> <<>>]

\* JavaScript truthiness of a property value: '' and undefined are falsy.
Truthy(x) == (x.t = "str" /\ x.v # <<>>) \/ x.t = "num"

\* The position of the first character at or after position i that is not
\* white space, Len(s) + 1 when there is none.
SkipWs(s, i) ==
    With({k \in i..Len(s) : ~IsSpace(s[k])},
         LAMBDA rest : IF rest = {} THEN Len(s) + 1
                       ELSE CHOOSE k \in rest : \A m \in rest : k <= m)

\* Stands for the second character of an escape pair, which yields no
\* character of its own.
Skipped == "skipped"

\* The number of backslashes that stand directly before position k, from
\* position i on.
Backslashes(s, i, k) ==
    IF k <= i \/ s[k - 1] # BS THEN 0
    ELSE With({m \in (i - 1)..(k - 1) : m = i - 1 \/ s[m] # BS}, LAMBDA before :
             k - 1 - (CHOOSE m \in before : \A n \in before : m >= n))

\* The characters of a string literal from 1-based position i (just after the
\* opening quote): [ok, v: acc and the decoded value, next: the position
\* after the closing quote].  A raw newline, an unknown escape or the end of
\* the text inside the literal is a SyntaxError.  The parser reads the
\* literal from left to right, a character or an escape pair at a time: a
\* position starts one of these when an even number of backslashes stands
\* before it, and the parser stops at the first of them that is the closing
\* quote or an error.
JsonChars(s, i, acc) ==
    With({k \in i..Len(s) : Backslashes(s, i, k) % 2 = 0}, LAMBDA starts0 :
    With({k \in starts0 :
             \/ s[k] = Q
             \/ s[k] = NL
             \/ s[k] \in {FallbackOpening, Closing}
             \/ s[k] = BS /\ (k + 1 > Len(s) \/ s[k + 1] \notin {Q, BS, "n"})},
         LAMBDA stops :
    IF stops = {} THEN [ok |-> FALSE, v |-> <<>>, next |-> IF i > Len(s) THEN i ELSE Len(s) + 1]
    ELSE
    With(CHOOSE k \in stops : \A m \in stops : k <= m, LAMBDA e :
    IF s[e] # Q THEN [ok |-> FALSE, v |-> <<>>, next |-> e]
    ELSE
    [ok |-> TRUE,
     v |-> acc \o SelectSeq([p \in 1..(e - i) |->
                               With(i + p - 1, LAMBDA k :
                                   IF k \notin starts0 THEN Skipped
                                   ELSE IF s[k] # BS THEN s[k]
                                   ELSE IF s[k + 1] = "n" THEN NL ELSE s[k + 1])],
                           LAMBDA c : c # Skipped),
     next |-> e + 1])))

\* A value at position i: a string literal or the number 1.
JsonValue(s, i) ==
    IF i > Len(s) THEN [ok |-> FALSE, v |-> Undefined, next |-> i]
    ELSE IF s[i] = Q
         THEN With(JsonChars(s, i + 1, <<>>),
                   LAMBDA r : [ok |-> r.ok, v |-> Str(r.v), next |-> r.next])
    ELSE IF s[i] = "1" THEN [ok |-> TRUE, v |-> Num, next |-> i + 1]
    ELSE [ok |-> FALSE, v |-> Undefined, next |-> i]

\* One member of an object from position i (after "{" or ","): the object
\* read so far is obj, a record of the three properties the worker reads; a
\* later member of the same name replaces an earlier one.  more says that a
\* comma follows the member, and next is then the position after it.
JsonMember(s, i, obj) ==
    With(SkipWs(s, i), LAMBDA k0 :
    IF k0 > Len(s) \/ s[k0] # Q
    THEN [ok |-> FALSE, obj |-> obj, next |-> k0, more |-> FALSE]
    ELSE
    With(JsonChars(s, k0 + 1, <<>>), LAMBDA key :
    With(SkipWs(s, key.next), LAMBDA c :
    IF ~key.ok \/ c > Len(s) \/ s[c] # COLON
    THEN [ok |-> FALSE, obj |-> obj, next |-> c, more |-> FALSE]
    ELSE
    With(JsonValue(s, SkipWs(s, c + 1)), LAMBDA val :
    With(SkipWs(s, val.next), LAMBDA e :
    With(IF key.v = <<"coverLetter">> THEN [obj EXCEPT !.coverLetter = val.v]
         ELSE IF key.v = <<"question">> THEN [obj EXCEPT !.question = val.v]
         ELSE IF key.v = <<"answer">> THEN [obj EXCEPT !.answer = val.v]
         ELSE obj, LAMBDA obj2 :
    IF ~val.ok \/ e > Len(s) THEN [ok |-> FALSE, obj |-> obj, next |-> e, more |-> FALSE]
    ELSE IF s[e] = RB THEN [ok |-> TRUE, obj |-> obj2, next |-> e + 1, more |-> FALSE]
    ELSE IF s[e] = COMMA THEN [ok |-> TRUE, obj |-> obj2, next |-> e + 1, more |-> TRUE]
    ELSE [ok |-> FALSE, obj |-> obj, next |-> e, more |-> FALSE]))))))

\* The members of an object from position i, one after the other.
RECURSIVE JsonMembers(_, _, _)
JsonMembers(s, i, obj) ==
    With(JsonMember(s, i, obj), LAMBDA m :
    IF m.more THEN JsonMembers(s, m.next, m.obj)
    ELSE [ok |-> m.ok, obj |-> m.obj, next |-> m.next])

EmptyObject == [coverLetter |-> Undefined, question |-> Undefined, answer |-> Undefined]

\* JSON.parse(text): [ok, obj].  ~ok is a SyntaxError.  A text that is not an
\* object (a bare string or number) parses to a value without properties.
JsonParse(s) ==
    With(s, LAMBDA text :
    With(SkipWs(text, 1), LAMBDA i :
    IF i > Len(text) THEN [ok |-> FALSE, obj |-> EmptyObject]
    ELSE IF text[i] = LB
         THEN With(SkipWs(text, i + 1), LAMBDA j :
              With(IF j <= Len(text) /\ text[j] = RB
                   THEN [ok |-> TRUE, obj |-> EmptyObject, next |-> j + 1]
                   ELSE JsonMembers(text, i + 1, EmptyObject), LAMBDA r :
              [ok |-> r.ok /\ SkipWs(text, r.next) > Len(text), obj |-> r.obj]))
    ELSE With(JsonValue(text, i), LAMBDA r :
         [ok |-> r.ok /\ SkipWs(text, r.next) > Len(text), obj |-> EmptyObject])))

\* ------------------------------------------- 5) Parse AI response (worker)

\* '"coverLetter": "' (16 characters, 6 lexemes)
CoverLetterMarker == <<Q, "coverLetter", Q, COLON, SP, Q>>

\* generatedText.trim(), then "Remove any text before the first {".
CleanResponse(generatedText) ==
    With(Trim(generatedText), LAMBDA cleanResponse :
    With(IndexOf(cleanResponse, <<LB>>), LAMBDA firstBrace :
    IF firstBrace > 0 THEN Substring(cleanResponse, firstBrace) ELSE cleanResponse))

\* "Check if JSON is incomplete (missing closing brace or cut off)".
IsIncomplete(cleanResponse) ==
    With(LastIndexOf(cleanResponse, <<RB>>), LAMBDA lastBrace :
    With(Includes(cleanResponse, <<Q, "answer", Q>>), LAMBDA hasAnswer :
        \/ lastBrace = -1
        \/ CharOffset(cleanResponse, lastBrace) < Length(cleanResponse) - TruncationSlack
        \/ ~hasAnswer))

\* "Extract cover letter content".
ExtractCoverLetter(cleanResponse) ==
    With(IndexOf(cleanResponse, CoverLetterMarker) + Len(CoverLetterMarker),
         LAMBDA coverLetterStart :
    IF coverLetterStart > Len(CoverLetterMarker) - 1
    THEN With(IndexOfFrom(cleanResponse, <<Q, COMMA>>, coverLetterStart),
              LAMBDA coverLetterEnd :
         IF coverLetterEnd > coverLetterStart
         THEN Substring2(cleanResponse, coverLetterStart, coverLetterEnd)
         ELSE With(Substring(cleanResponse, coverLetterStart), LAMBDA cut :
              With(LastIndexOf(cut, <<DOT>>), LAMBDA lastPeriod :
              IF lastPeriod > 0 THEN Substring2(cut, 0, lastPeriod + 1) ELSE cut)))
    ELSE <<>>)

\* "Create a complete JSON structure".
Reconstruct(cleanResponse) ==
    With(ExtractCoverLetter(cleanResponse), LAMBDA coverLetter :
    With(ReplaceAll(ReplaceAll(coverLetter, <<Q>>, <<BS, Q>>), <<NL>>, <<BS, "n">>),
         LAMBDA escaped :
    <<LB, NL, SP, SP>> \o CoverLetterMarker \o escaped \o <<Q, COMMA, NL, SP, SP>>
    \o <<Q, "question", Q, COLON, SP, Q, SelectedQuestion, Q, COMMA, NL, SP, SP>>
    \o <<Q, "answer", Q, COLON, SP, Q, CompleteAnswer, Q, NL, RB>>))

\* "Ensure answer is at least 100 words".
ExpandAnswer(answer) ==
    IF SplitLength(answer) < MinAnswerWords THEN answer \o <<Padding>> ELSE answer

\* The try block of step 5: [threw, parsed, reconstructed].  threw is a
\* SyntaxError of JSON.parse, the 'Missing required fields' Error, or the
\* TypeError of split on an answer that is not a string.
TryParse(generatedText) ==
    With(CleanResponse(generatedText), LAMBDA clean :
    With(IsIncomplete(clean), LAMBDA reconstructed :
    With(IF reconstructed THEN Reconstruct(clean) ELSE clean, LAMBDA cleanResponse :
    With(JsonParse(cleanResponse), LAMBDA json :
    With(json.obj, LAMBDA parsed :
    IF ~json.ok
    THEN [threw |-> TRUE, parsed |-> EmptyObject, reconstructed |-> reconstructed]
    ELSE IF ~Truthy(parsed.coverLetter) \/ ~Truthy(parsed.question) \/ ~Truthy(parsed.answer)
    THEN [threw |-> TRUE, parsed |-> EmptyObject, reconstructed |-> reconstructed]
    ELSE IF parsed.answer.t # "str"
    THEN [threw |-> TRUE, parsed |-> EmptyObject, reconstructed |-> reconstructed]
    ELSE [threw |-> FALSE,
          parsed |-> [parsed EXCEPT !.answer = Str(ExpandAnswer(parsed.answer.v))],
          reconstructed |-> reconstructed])))))

\* generatedText.match(/"coverLetter":\s*"([^"]*(?:"[^"]*)*)"/): the group,
\* from the quote that opens the value to the last quote of the whole text;
\* <<>> when there is no match or the group is empty.
CoverLetterMatch(generatedText) ==
    LET key == <<Q, "coverLetter", Q, COLON>>
        open(i) == SkipWs(generatedText, i + Len(key) + 1)
    IN  With(LastIndexOf(generatedText, <<Q>>) + 1, LAMBDA lastQuote :
        With({i \in 0..(Len(generatedText) - Len(key)) :
                 /\ SubSeq(generatedText, i + 1, i + Len(key)) = key
                 /\ open(i) <= Len(generatedText)
                 /\ generatedText[open(i)] = Q
                 /\ lastQuote > open(i)}, LAMBDA starts0 :
        IF starts0 = {} THEN <<>>
        ELSE With(CHOOSE k \in starts0 : \A m \in starts0 : k <= m, LAMBDA i :
             SubSeq(generatedText, open(i) + 1, lastQuote - 1))))

\* generatedText.match(/Dear[^}]+/): from the first "Dear" that something
\* other than "}" follows, up to the next "}" or the end; <<>> without match.
DearMatch(generatedText) ==
    With({i \in 1..(Len(generatedText) - 1) :
             generatedText[i] = "Dear" /\ generatedText[i + 1] # RB}, LAMBDA starts0 :
    IF starts0 = {} THEN <<>>
    ELSE With(CHOOSE k \in starts0 : \A m \in starts0 : k <= m, LAMBDA i :
         With({k \in (i + 1)..Len(generatedText) : generatedText[k] = RB}, LAMBDA stops :
         With(IF stops = {} THEN Len(generatedText)
              ELSE (CHOOSE k \in stops : \A m \in stops : k <= m) - 1, LAMBDA last :
         SubSeq(generatedText, i, last)))))

\* .replace(/\\n/g, '\n').replace(/\\"/g, '"')
Unescape(s) == ReplaceAll(ReplaceAll(s, <<BS, "n">>, <<NL>>), <<BS, Q>>, <<Q>>)

\* The catch block of step 5: "Fallback: create a comprehensive structure".
CatchFallback(generatedText) ==
    With(CoverLetterMatch(generatedText), LAMBDA coverLetterMatch :
    With(DearMatch(generatedText), LAMBDA textMatch :
    With(IF coverLetterMatch # <<>> THEN Unescape(coverLetterMatch)
         ELSE IF textMatch # <<>> THEN Unescape(textMatch)
         ELSE <<FallbackOpening>>, LAMBDA fallbackCoverLetter :
    [coverLetter |-> Str(fallbackCoverLetter \o <<Closing>>),
     question |-> Str(<<SelectedQuestion>>),
     answer |-> Str(<<CompleteAnswer>>)])))

\* Step 5 without its catch block: what the try block throws leaves the
\* stage.
ParseAIResponseWithoutCatch(generatedText) ==
    With(generatedText, LAMBDA text :
    With(TryParse(text), LAMBDA t :
    IF t.threw
    THEN [raised |-> TRUE, parsed |-> EmptyObject, path |-> "fallback"]
    ELSE [raised |-> FALSE, parsed |-> t.parsed,
          path |-> IF t.reconstructed THEN "reconstructed" ELSE "direct"]))

\* Step 5 as a whole: [raised, parsed, path].  The catch block has no
\* statement that can throw on a string, so raised is FALSE.
ParseAIResponse(generatedText) ==
    With(generatedText, LAMBDA text :
    With(TryParse(text), LAMBDA t :
    IF t.threw
    THEN [raised |-> FALSE, parsed |-> CatchFallback(text), path |-> "fallback"]
    ELSE [raised |-> FALSE, parsed |-> t.parsed,
          path |-> IF t.reconstructed THEN "reconstructed" ELSE "direct"]))


\* ------------------------------------------------ raw generation texts

\* JSON encoding of a string value, as the generation backend writes it.
Escape(v) ==
    ReplaceAll(ReplaceAll(ReplaceAll(v, <<BS>>, <<BS, BS>>), <<Q>>, <<BS, Q>>), <<NL>>, <<BS, "n">>)

Encode(x) == IF x.t = "str" THEN <<Q>> \o Escape(x.v) \o <<Q>> ELSE <<"1">>

Member(name, x, spaced) ==
    <<Q, name, Q, COLON>> \o (IF spaced THEN <<SP>> ELSE <<>>) \o Encode(x)

RECURSIVE Join(_)
Join(members) ==
    IF members = <<>> THEN <<>>
    ELSE IF Tail(members) = <<>> THEN Head(members)
    ELSE Head(members) \o <<COMMA, NL>> \o Join(Tail(members))

\* The JSON object with the members that are not undefined, in the order
\* the prompt asks for.
ObjectText(cl, q, a, spaced) ==
    LET m1 == IF cl.t = "undefined" THEN <<>> ELSE <<Member("coverLetter", cl, spaced)>>
        m2 == IF q.t = "undefined" THEN <<>> ELSE <<Member("question", q, spaced)>>
        m3 == IF a.t = "undefined" THEN <<>> ELSE <<Member("answer", a, spaced)>>
    IN  <<LB>> \o Join(m1 \o m2 \o m3) \o <<RB>>

Repeat(t, n) == [i \in 1..n |-> t]

\* Bounds of the raw texts: words of prose before the object, characters
\* after it, lexemes cut off its end.
MaxPrefix == 1
MaxSuffix == 10
MaxCut == 40

ClValues ==
    {Undefined, Num, Str(<<>>), Str(<<"Dear", SP, "w", DOT>>),
     Str(<<"w", Q, "w", Q, DOT, SP, "w">>), Str(<<"w", DOT, NL, "w">>)}

QValues == {Undefined, Str(<<SelectedQuestion>>), Str(<<"w">>)}

AValues ==
    {Undefined, Num, Str(<<"w">>), Str(<<WordBlock>>), Str(<<WordBlock, SP, "w">>)}

ProseValues == {<<"w", SP, "w">>, <<"Dear", SP, "w", DOT>>, <<SP>>, <<"w", RB>>}

NoFields == [cl |-> Undefined, q |-> Undefined, a |-> Undefined]

\* What the generation backend may answer: a JSON object (kind "object")
\* with prose before it, text after it, or its end cut off; prose without any
\* JSON (kind "prose"); the body of an error answer (kind "error").
ObjectTexts ==
    {[kind |-> "object", cl |-> cl, q |-> q, a |-> a, spaced |-> sp,
      pre |-> pre, suf |-> 0, cut |-> 0, prose |-> <<>>] :
        cl \in ClValues, q \in QValues, a \in AValues, sp \in BOOLEAN, pre \in 0..MaxPrefix}

TrailedTexts ==
    {[kind |-> "object", cl |-> cl, q |-> Str(<<"w">>), a |-> a, spaced |-> TRUE,
      pre |-> 0, suf |-> suf, cut |-> 0, prose |-> <<>>] :
        cl \in ClValues, a \in AValues, suf \in 1..MaxSuffix}

CutTexts ==
    {d \in {[kind |-> "object", cl |-> cl, q |-> Str(<<"w">>), a |-> a, spaced |-> TRUE,
             pre |-> 0, suf |-> 0, cut |-> cut, prose |-> <<>>] :
                cl \in ClValues, a \in AValues, cut \in 1..MaxCut} :
        d.cut < Len(ObjectText(d.cl, d.q, d.a, d.spaced))}

ProseTexts ==
    {[kind |-> "prose", cl |-> Undefined, q |-> Undefined, a |-> Undefined, spaced |-> TRUE,
      pre |-> 0, suf |-> 0, cut |-> 0, prose |-> p] : p \in ProseValues}

ErrorText ==
    [kind |-> "error", cl |-> Undefined, q |-> Undefined, a |-> Undefined, spaced |-> FALSE,
     pre |-> 0, suf |-> 0, cut |-> 0, prose |-> <<LB, Q, "error", Q, COLON, Q, "w", Q, RB>>]

RawTexts == ObjectTexts \cup TrailedTexts \cup CutTexts \cup ProseTexts \cup {ErrorText}

NoText ==
    [kind |-> "none", cl |-> Undefined, q |-> Undefined, a |-> Undefined, spaced |-> FALSE,
     pre |-> 0, suf |-> 0, cut |-> 0, prose |-> <<>>]

\* generatedText: llmJson.response || JSON.stringify(llmJson)
GeneratedText(d) ==
    IF d.kind # "object" THEN d.prose
    ELSE With(ObjectText(d.cl, d.q, d.a, d.spaced), LAMBDA obj :
         Repeat("w", d.pre) \o (IF d.pre > 0 THEN <<COLON, NL>> ELSE <<>>)
         \o SubSeq(obj, 1, Len(obj) - d.cut) \o Repeat("w", d.suf))


\* ---------------------------------------------------------------- state

\* Bounds of the model.
\* Job identifiers, and how many of them are submitted in the runs of the
\* pipeline of one job.
NumJobs == 3
MaxAdmitted == 1
MaxEvents == 2
MaxInflight == 2
MaxFaults == 1

\* queue.add(..., { attempts: 3, ... })
Attempts == 3
\* new Worker(..., { concurrency: 2 })
Concurrency == 2

Jobs == 1..NumJobs
Admitted == 1..MaxAdmitted

VARIABLES
    input,       \* input[j]: the multipart request of job j, NoInput before it is sent
    ipc,         \* ipc[j]: where the POST /process handler of job j stands
    upload,      \* upload[j]: the CV file stored by the upload middleware exists
    artifact,    \* artifact[j]: out/cover-<jobId>.pdf exists
    jobStatus,   \* the server's in-memory Map jobId -> status entry
    db,          \* the rows of the jobs table of the store
    dbWrites,    \* updateJob requests of the event handlers on their way to the store
    queue,       \* queue[j]: the job in the queue: state, attemptsMade, progress, data.step
    events,      \* queue events on their way to the server's handlers, in order
    wpc,         \* wpc[j]: where the worker's processor stands in the attempt of job j
    err,         \* err[j]: the error the attempt raised
    gen,         \* gen[j]: what the generation backend answered
    parsed,      \* parsed[j]: the result of step 5
    jobContent,  \* jobContent[j]: "none", "text", "article" or "empty"
    browsers,    \* browsers[j]: browsers launched for job j that are still open
    poll,        \* poll[j]: the GET /status/:jobId request in progress
    polled,      \* polled[j]: the progress the last status poll returned, -1 before
    faults,      \* backend, store and queue failures so far
    attemptFault,\* attemptFault[j]: a failure was met during the current attempt
    ran,         \* ran[j]: the steps the current attempt has run
    raisedAt,    \* raisedAt[j]: the step of the current attempt that raised, "" if none
    starts,      \* starts[j]: attempts started
    cleaned      \* cleaned[j]: DELETE /cleanup/<jobId> has succeeded

vars ==
    <<input, ipc, upload, artifact, jobStatus, db, dbWrites, queue, events, wpc, err, gen,
      parsed, jobContent, browsers, poll, polled, faults, attemptFault, ran, raisedAt,
      starts, cleaned>>

NoInput == [cv |-> "none", job |-> "none"]

\* The CV yields text or nothing; the job is given as text, as a URL whose
\* page has an article ("url") or none ("blank"), or as both.
Inputs == [cv : {"text", "empty"}, job : {"text", "url", "blank", "both"}]

NoEntry == [status |-> "absent", progress |-> 0, step |-> "", error |-> "", completedAt |-> FALSE]

NoRow ==
    [status |-> "absent", progress |-> 0, step |-> "", error |-> "", result |-> FALSE,
     completedAt |-> FALSE]

NoJob == [state |-> "none", attemptsMade |-> 0, progress |-> 0, step |-> "", failedReason |-> ""]

NoPoll == [pc |-> "none", status |-> NoEntry, progress |-> 0]

Init ==
    /\ input = [j \in Jobs |-> NoInput]
    /\ ipc = [j \in Jobs |-> "none"]
    /\ upload = [j \in Jobs |-> FALSE]
    /\ artifact = [j \in Jobs |-> FALSE]
    /\ jobStatus = [j \in Jobs |-> NoEntry]
    /\ db = [j \in Jobs |-> NoRow]
    /\ dbWrites = {}
    /\ queue = [j \in Jobs |-> NoJob]
    /\ events = <<>>
    /\ wpc = [j \in Jobs |-> "idle"]
    /\ err = [j \in Jobs |-> ""]
    /\ gen = [j \in Jobs |-> NoText]
    /\ parsed = [j \in Jobs |-> EmptyObject]
    /\ jobContent = [j \in Jobs |-> "none"]
    /\ browsers = [j \in Jobs |-> 0]
    /\ poll = [j \in Jobs |-> NoPoll]
    /\ polled = [j \in Jobs |-> -1]
    /\ faults = 0
    /\ attemptFault = [j \in Jobs |-> FALSE]
    /\ ran = [j \in Jobs |-> {}]
    /\ raisedAt = [j \in Jobs |-> ""]
    /\ starts = [j \in Jobs |-> 0]
    /\ cleaned = [j \in Jobs |-> FALSE]

intakeVars == <<input, ipc>>
fileVars == <<upload, artifact>>
storeVars == <<db, dbWrites>>
pollVars == <<poll, polled>>
workerLocals == <<gen, parsed, jobContent, browsers>>

\* ---------------------------------------------------------- the store

\* An update that stores the status of a failed handler's request without
\* its error_message.
ApplyUpdateWithoutError(row, w) ==
    IF row.status = "absent" THEN row
    ELSE CASE w.kind = "progress" ->
                [row EXCEPT !.status = "processing", !.progress = w.progress, !.step = w.step]
           [] w.kind = "completed" ->
                [row EXCEPT !.status = "completed", !.progress = 100, !.step = "Completed!",
                            !.completedAt = TRUE]
           [] w.kind = "failed" ->
                [row EXCEPT !.status = "failed", !.step = "Failed"]
           [] w.kind = "result" ->
                [row EXCEPT !.status = "completed", !.progress = 100, !.step = "Completed!",
                            !.completedAt = TRUE, !.result = TRUE]

\* supabase.from('jobs').update(updates).eq('job_id', jobId): the fields of
\* updates replace those of the row; without a row nothing is written (and
\* updateJob returns null).
ApplyUpdate(row, w) ==
    IF row.status = "absent" THEN row
    ELSE CASE w.kind = "progress" ->
                [row EXCEPT !.status = "processing", !.progress = w.progress, !.step = w.step]
           [] w.kind = "completed" ->
                [row EXCEPT !.status = "completed", !.progress = 100, !.step = "Completed!",
                            !.completedAt = TRUE]
           [] w.kind = "failed" ->
                [row EXCEPT !.status = "failed", !.error = w.error, !.step = "Failed"]
           [] w.kind = "result" ->
                [row EXCEPT !.status = "completed", !.progress = 100, !.step = "Completed!",
                            !.completedAt = TRUE, !.result = TRUE]

Update(j, kind, progress, step, error) ==
    [job |-> j, kind |-> kind, progress |-> progress, step |-> step, error |-> error]

\* A failure of a backend, of the store or of the queue connection.
InjectFault(j) ==
    /\ faults < MaxFaults
    /\ faults' = faults + 1
    /\ attemptFault' = [attemptFault EXCEPT ![j] = TRUE]

NoFault == UNCHANGED <<faults, attemptFault>>

\* JobDatabase.getJob(jobId): the row, or null (NoRow here) when there is
\* none or the store fails; the try/catch lets no error out.
GetJob(j, fails) ==
    [raised |-> FALSE, value |-> IF fails \/ db[j].status = "absent" THEN NoRow ELSE db[j]]

\* An updateJob request of a handler reaches the store, in any order with
\* the others; or the store fails and updateJob returns null.
StoreApply(w) ==
    /\ w \in dbWrites
    /\ dbWrites' = dbWrites \ {w}
    /\ \/ db' = [db EXCEPT ![w.job] = ApplyUpdate(@, w)] /\ NoFault
       \/ InjectFault(w.job) /\ UNCHANGED db
    /\ UNCHANGED <<intakeVars, fileVars, jobStatus, queue, events, wpc, err, workerLocals,
                   pollVars, ran, raisedAt, starts, cleaned>>


\* ------------------------------------------------- the worker's processor

Goto(j, next) == wpc' = [wpc EXCEPT ![j] = next] /\ UNCHANGED <<err, raisedAt>>

\* An await of the try block rejects: control passes to the catch block.
Throw(j, at, msg) ==
    /\ wpc' = [wpc EXCEPT ![j] = "catch"]
    /\ err' = [err EXCEPT ![j] = msg]
    /\ raisedAt' = [raisedAt EXCEPT ![j] = at]

Ran(j, at) == ran' = [ran EXCEPT ![j] = @ \cup {at}]

Event(type, j, progress, step, error) ==
    [type |-> type, job |-> j, progress |-> progress, step |-> step, error |-> error]

\* await job.updateProgress(n); await job.updateData({ step }).  The progress
\* event carries the job as it is when the progress is set, so with the step
\* of the milestone before.
UpdateProgress(j, at, n, step, next) ==
    /\ wpc[j] = at
    /\ Ran(j, at)
    /\ \/ /\ Len(events) < MaxEvents
          /\ events' = Append(events, Event("progress", j, n, queue[j].step, ""))
          /\ queue' = [queue EXCEPT ![j].progress = n, ![j].step = step]
          /\ Goto(j, next)
          /\ NoFault
       \/ /\ InjectFault(j)
          /\ Throw(j, at, "queue connection lost")
          /\ UNCHANGED <<events, queue>>
    /\ UNCHANGED <<intakeVars, fileVars, jobStatus, storeVars, workerLocals, pollVars,
                   starts, cleaned>>

Progress10(j) == UpdateProgress(j, "p10", 10, "Extracting CV text...", "extract")

\* Step 1 without the test of the extracted text.
ExtractCVWithoutCheck(j) ==
    /\ wpc[j] = "extract"
    /\ Ran(j, "extract")
    /\ IF ~upload[j]
       THEN Throw(j, "extract", "Failed to extract text from PDF") /\ NoFault
       ELSE \/ /\ input[j].cv \in {"text", "empty"}
               /\ Goto(j, "p20")
               /\ NoFault
            \/ /\ InjectFault(j)
               /\ Throw(j, "extract", "Failed to extract text from PDF")
    /\ UNCHANGED <<intakeVars, fileVars, jobStatus, storeVars, queue, events, workerLocals,
                   pollVars, starts, cleaned>>

\* 1) Extract text from CV PDF: extractTextFromPDF reads the file, which
\* must exist, and the empty text is refused.
ExtractCV(j) ==
    /\ wpc[j] = "extract"
    /\ Ran(j, "extract")
    /\ IF ~upload[j]
       THEN Throw(j, "extract", "Failed to extract text from PDF") /\ NoFault
       ELSE \/ /\ input[j].cv = "text"
               /\ Goto(j, "p20")
               /\ NoFault
            \/ /\ input[j].cv = "empty"
               /\ Throw(j, "extract", "No text could be extracted from the CV PDF")
               /\ NoFault
            \/ /\ InjectFault(j)
               /\ Throw(j, "extract", "Failed to extract text from PDF")
    /\ UNCHANGED <<intakeVars, fileVars, jobStatus, storeVars, queue, events, workerLocals,
                   pollVars, starts, cleaned>>

Progress20(j) == UpdateProgress(j, "p20", 20, "Extracting job content...", "job")

\* Step 2 fetching the page whenever a job URL is given.
ExtractJobContentPreferringUrl(j) ==
    /\ wpc[j] = "job"
    /\ Ran(j, "job")
    /\ IF input[j].job \in {"url", "blank", "both"}
       THEN \/ /\ jobContent' = [jobContent EXCEPT ![j] =
                                    IF input[j].job = "blank" THEN "empty" ELSE "article"]
               /\ Goto(j, "p30")
               /\ NoFault
            \/ /\ InjectFault(j)
               /\ Throw(j, "job", "fetch failed")
               /\ UNCHANGED jobContent
       ELSE /\ jobContent' = [jobContent EXCEPT ![j] = "text"]
            /\ Goto(j, "p30")
            /\ NoFault
    /\ UNCHANGED <<intakeVars, fileVars, jobStatus, storeVars, queue, events, gen, parsed,
                   browsers, pollVars, starts, cleaned>>

\* 2) Extract job content (if URL provided)
ExtractJobContent(j) ==
    /\ wpc[j] = "job"
    /\ Ran(j, "job")
    /\ IF input[j].job \in {"url", "blank"}
       THEN \/ /\ jobContent' = [jobContent EXCEPT ![j] =
                                    IF input[j].job = "url" THEN "article" ELSE "empty"]
               /\ Goto(j, "p30")
               /\ NoFault
            \/ /\ InjectFault(j)
               /\ Throw(j, "job", "fetch failed")
               /\ UNCHANGED jobContent
       ELSE /\ jobContent' = [jobContent EXCEPT ![j] = "text"]
            /\ Goto(j, "p30")
            /\ NoFault
    /\ UNCHANGED <<intakeVars, fileVars, jobStatus, storeVars, queue, events, gen, parsed,
                   browsers, pollVars, starts, cleaned>>

\* updateProgress(30) followed at once by the generation call.
Progress30SkippingFifty(j) == UpdateProgress(j, "p30", 30, "Generating cover letter...", "llm")

Progress30(j) == UpdateProgress(j, "p30", 30, "Generating cover letter...", "p50")

Progress50(j) == UpdateProgress(j, "p50", 50, "Calling AI...", "llm")

\* The answers of the generation backend the pipeline is run with: the
\* object the prompt asks for, with an answer of 100 words, and prose.
GoodText ==
    [kind |-> "object", cl |-> Str(<<"Dear", SP, "w", DOT>>), q |-> Str(<<"w">>),
     a |-> Str(<<WordBlock, SP, "w">>), spaced |-> TRUE, pre |-> 0, suf |-> 0, cut |-> 0,
     prose |-> <<>>]

ProseText ==
    [kind |-> "prose", cl |-> Undefined, q |-> Undefined, a |-> Undefined, spaced |-> TRUE,
     pre |-> 0, suf |-> 0, cut |-> 0, prose |-> <<"Dear", SP, "w", DOT>>]

SystemTexts == {GoodText, ProseText}

\* 4) Call Ollama API: fetch, then llmResp.json().  The status of the
\* response is not looked at: the body of an error answer is JSON without a
\* response member and becomes the generated text.
CallOllama(j, texts) ==
    /\ wpc[j] = "llm"
    /\ Ran(j, "llm")
    /\ \/ /\ \E d \in texts : gen' = [gen EXCEPT ![j] = d]
          /\ Goto(j, "p70")
          /\ NoFault
       \/ /\ InjectFault(j)
          /\ gen' = [gen EXCEPT ![j] = ErrorText]
          /\ Goto(j, "p70")
       \/ /\ InjectFault(j)
          /\ Throw(j, "llm", "fetch failed")
          /\ UNCHANGED gen
    /\ UNCHANGED <<intakeVars, fileVars, jobStatus, storeVars, queue, events, parsed,
                   jobContent, browsers, pollVars, starts, cleaned>>

Progress70(j) == UpdateProgress(j, "p70", 70, "Parsing AI response...", "parse")

\* 5) Parse AI response
ParseResponse(j) ==
    /\ wpc[j] = "parse"
    /\ Ran(j, "parse")
    /\ \E r \in {ParseAIResponse(GeneratedText(gen[j]))} :
           IF r.raised
           THEN Throw(j, "parse", "parse error") /\ UNCHANGED parsed
           ELSE Goto(j, "p85") /\ parsed' = [parsed EXCEPT ![j] = r.parsed]
    /\ NoFault
    /\ UNCHANGED <<intakeVars, fileVars, jobStatus, storeVars, queue, events, gen,
                   jobContent, browsers, pollVars, starts, cleaned>>

Progress85(j) == UpdateProgress(j, "p85", 85, "Generating PDF...", "launch")

\* 6) Generate Cover Letter PDF: puppeteer.launch
Launch(j) ==
    /\ wpc[j] = "launch"
    /\ Ran(j, "launch")
    /\ \/ /\ browsers' = [browsers EXCEPT ![j] = @ + 1]
          /\ Goto(j, "page")
          /\ NoFault
       \/ /\ InjectFault(j)
          /\ Throw(j, "launch", "browser launch failed")
          /\ UNCHANGED browsers
    /\ UNCHANGED <<intakeVars, fileVars, jobStatus, storeVars, queue, events, gen, parsed,
                   jobContent, pollVars, starts, cleaned>>

\* browser.newPage() and page.setContent(coverHtml)
SetContent(j) ==
    /\ wpc[j] = "page"
    /\ Ran(j, "page")
    /\ \/ Goto(j, "pdf") /\ NoFault
       \/ InjectFault(j) /\ Throw(j, "page", "page failed")
    /\ UNCHANGED <<intakeVars, fileVars, jobStatus, storeVars, queue, events, workerLocals,
                   pollVars, starts, cleaned>>

\* page.pdf that returns without having written the file.
PagePdfWithoutFile(j) ==
    /\ wpc[j] = "pdf"
    /\ Ran(j, "pdf")
    /\ \/ /\ UNCHANGED artifact
          /\ Goto(j, "close")
          /\ NoFault
       \/ /\ InjectFault(j)
          /\ Throw(j, "pdf", "pdf failed")
          /\ UNCHANGED artifact
    /\ UNCHANGED <<intakeVars, upload, jobStatus, storeVars, queue, events, workerLocals,
                   pollVars, starts, cleaned>>

\* page.pdf({ path: out/cover-<jobId>.pdf })
PagePdf(j) ==
    /\ wpc[j] = "pdf"
    /\ Ran(j, "pdf")
    /\ \/ /\ artifact' = [artifact EXCEPT ![j] = TRUE]
          /\ Goto(j, "close")
          /\ NoFault
       \/ /\ InjectFault(j)
          /\ Throw(j, "pdf", "pdf failed")
          /\ UNCHANGED artifact
    /\ UNCHANGED <<intakeVars, upload, jobStatus, storeVars, queue, events, workerLocals,
                   pollVars, starts, cleaned>>

\* browser.close()
BrowserClose(j) ==
    /\ wpc[j] = "close"
    /\ Ran(j, "close")
    /\ \/ /\ browsers' = [browsers EXCEPT ![j] = @ - 1]
          /\ Goto(j, "p100")
          /\ NoFault
       \/ /\ InjectFault(j)
          /\ Throw(j, "close", "close failed")
          /\ UNCHANGED browsers
    /\ UNCHANGED <<intakeVars, fileVars, jobStatus, storeVars, queue, events, gen, parsed,
                   jobContent, pollVars, starts, cleaned>>

Progress100(j) == UpdateProgress(j, "p100", 100, "Completed!", "updateJob")

\* A final updateJob that lets the error of the store out.
WorkerUpdateJobRaising(j) ==
    /\ wpc[j] = "updateJob"
    /\ Ran(j, "updateJob")
    /\ \/ /\ db' = [db EXCEPT ![j] = ApplyUpdate(@, Update(j, "result", 100, "Completed!", ""))]
          /\ NoFault
          /\ Goto(j, "return")
       \/ /\ InjectFault(j)
          /\ UNCHANGED db
          /\ Throw(j, "updateJob", "store error")
    /\ UNCHANGED <<intakeVars, fileVars, jobStatus, dbWrites, queue, events, workerLocals,
                   pollVars, starts, cleaned>>

\* await JobDatabase.updateJob(jobId, { ..., status: 'completed', progress: 100 }):
\* the worker waits for the store; updateJob returns null when the store fails.
WorkerUpdateJob(j) ==
    /\ wpc[j] = "updateJob"
    /\ Ran(j, "updateJob")
    /\ \/ /\ db' = [db EXCEPT ![j] = ApplyUpdate(@, Update(j, "result", 100, "Completed!", ""))]
          /\ NoFault
       \/ /\ InjectFault(j)
          /\ UNCHANGED db
    /\ Goto(j, "return")
    /\ UNCHANGED <<intakeVars, fileVars, jobStatus, dbWrites, queue, events, workerLocals,
                   pollVars, starts, cleaned>>

\* fs.existsSync(filePath) && fs.unlinkSync(filePath)
CleanupFile(j) == upload' = [upload EXCEPT ![j] = FALSE]

\* cleanupFile(filePath); return { ... }: the queue moves the job to
\* completed and announces it.
Return(j) ==
    /\ wpc[j] = "return"
    /\ Len(events) < MaxEvents
    /\ Ran(j, "return")
    /\ CleanupFile(j)
    /\ wpc' = [wpc EXCEPT ![j] = "idle"]
    /\ queue' = [queue EXCEPT ![j].state = "completed"]
    /\ events' = Append(events, Event("completed", j, 100, queue[j].step, ""))
    /\ NoFault
    /\ UNCHANGED <<intakeVars, artifact, jobStatus, storeVars, err, raisedAt, workerLocals,
                   pollVars, starts, cleaned>>

\* A rethrow of the catch block that the queue does not take notice of.
CatchLeavingActive(j) ==
    /\ wpc[j] = "catch"
    /\ Len(events) < MaxEvents
    /\ CleanupFile(j)
    /\ wpc' = [wpc EXCEPT ![j] = "idle"]
    /\ UNCHANGED queue
    /\ events' = Append(events, Event("failed", j, queue[j].progress, queue[j].step, err[j]))
    /\ NoFault
    /\ UNCHANGED <<intakeVars, artifact, jobStatus, storeVars, err, raisedAt, ran,
                   workerLocals, pollVars, starts, cleaned>>

\* A catch block that rethrows without cleanupFile(filePath).
CatchKeepingFile(j) ==
    /\ wpc[j] = "catch"
    /\ Len(events) < MaxEvents
    /\ UNCHANGED upload
    /\ wpc' = [wpc EXCEPT ![j] = "idle"]
    /\ queue' = [queue EXCEPT ![j].attemptsMade = @ + 1,
                              ![j].failedReason = err[j],
                              ![j].state = IF queue[j].attemptsMade + 1 < Attempts
                                           THEN "delayed" ELSE "failed"]
    /\ events' = Append(events, Event("failed", j, queue[j].progress, queue[j].step, err[j]))
    /\ NoFault
    /\ UNCHANGED <<intakeVars, artifact, jobStatus, storeVars, err, raisedAt, ran,
                   workerLocals, pollVars, starts, cleaned>>

\* catch (error) { cleanupFile(filePath); throw error }: the queue counts
\* the attempt as failed, keeps the job for a retry while attempts are left,
\* and announces the failure.
Catch(j) ==
    /\ wpc[j] = "catch"
    /\ Len(events) < MaxEvents
    /\ CleanupFile(j)
    /\ wpc' = [wpc EXCEPT ![j] = "idle"]
    /\ queue' = [queue EXCEPT ![j].attemptsMade = @ + 1,
                              ![j].failedReason = err[j],
                              ![j].state = IF queue[j].attemptsMade + 1 < Attempts
                                           THEN "delayed" ELSE "failed"]
    /\ events' = Append(events, Event("failed", j, queue[j].progress, queue[j].step, err[j]))
    /\ NoFault
    /\ UNCHANGED <<intakeVars, artifact, jobStatus, storeVars, err, raisedAt, ran,
                   workerLocals, pollVars, starts, cleaned>>

\* ------------------------------------------------------ the queue runtime

\* The backoff delay of a failed attempt has passed.
Backoff(j) ==
    /\ queue[j].state = "delayed"
    /\ queue' = [queue EXCEPT ![j].state = "waiting"]
    /\ UNCHANGED <<intakeVars, fileVars, jobStatus, storeVars, events, wpc, err, workerLocals,
                   pollVars, faults, attemptFault, ran, raisedAt, starts, cleaned>>

\* A worker that takes every waiting job at once.
DispatchWithoutLimit(j) ==
    /\ queue[j].state = "waiting"
    /\ queue' = [queue EXCEPT ![j].state = "active"]
    /\ wpc' = [wpc EXCEPT ![j] = "p10"]
    /\ err' = [err EXCEPT ![j] = ""]
    /\ raisedAt' = [raisedAt EXCEPT ![j] = ""]
    /\ ran' = [ran EXCEPT ![j] = {}]
    /\ attemptFault' = [attemptFault EXCEPT ![j] = FALSE]
    /\ gen' = [gen EXCEPT ![j] = NoText]
    /\ parsed' = [parsed EXCEPT ![j] = EmptyObject]
    /\ jobContent' = [jobContent EXCEPT ![j] = "none"]
    /\ starts' = [starts EXCEPT ![j] = @ + 1]
    /\ UNCHANGED <<intakeVars, fileVars, jobStatus, storeVars, events, browsers, pollVars,
                   faults, cleaned>>

\* The worker takes a waiting job while fewer than Concurrency are active,
\* and calls the processor with it.
Dispatch(j) ==
    /\ queue[j].state = "waiting"
    /\ Cardinality({k \in Jobs : queue[k].state = "active"}) < Concurrency
    /\ queue' = [queue EXCEPT ![j].state = "active"]
    /\ wpc' = [wpc EXCEPT ![j] = "p10"]
    /\ err' = [err EXCEPT ![j] = ""]
    /\ raisedAt' = [raisedAt EXCEPT ![j] = ""]
    /\ ran' = [ran EXCEPT ![j] = {}]
    /\ attemptFault' = [attemptFault EXCEPT ![j] = FALSE]
    /\ gen' = [gen EXCEPT ![j] = NoText]
    /\ parsed' = [parsed EXCEPT ![j] = EmptyObject]
    /\ jobContent' = [jobContent EXCEPT ![j] = "none"]
    /\ starts' = [starts EXCEPT ![j] = @ + 1]
    /\ UNCHANGED <<intakeVars, fileVars, jobStatus, storeVars, events, browsers, pollVars,
                   faults, cleaned>>

\* Attempts up to this one may be cut short by the end of the worker process.
MaxCrashAttempt == 1

\* The worker process ends while attempts are running (it is killed or the
\* machine stops) and is started again: no catch block runs, so the uploads
\* stay, files already written stay, and the queue, finding the locks of the
\* active jobs expired, puts them back to waiting without counting an
\* attempt.  A browser of the attempt dies with the process or is left.
Crash ==
    /\ \E j \in Jobs : queue[j].state = "active"
    /\ \A j \in Jobs : queue[j].state = "active" => starts[j] <= MaxCrashAttempt
    /\ wpc' = [j \in Jobs |-> IF queue[j].state = "active" THEN "idle" ELSE wpc[j]]
    /\ queue' = [j \in Jobs |->
                    IF queue[j].state = "active" THEN [queue[j] EXCEPT !.state = "waiting"]
                    ELSE queue[j]]
    /\ \/ UNCHANGED browsers
       \/ browsers' = [j \in Jobs |-> IF queue[j].state = "active" THEN 0 ELSE browsers[j]]
    /\ UNCHANGED <<intakeVars, fileVars, jobStatus, storeVars, events, err, gen, parsed,
                   jobContent, pollVars, faults, attemptFault, ran, raisedAt, starts, cleaned>>

\* The steps of the processor in the order of its statements.
Stages ==
    <<"p10", "extract", "p20", "job", "p30", "p50", "llm", "p70", "parse", "p85", "launch",
      "page", "pdf", "close", "p100", "updateJob", "return">>

StageIndex(at) == CHOOSE i \in 1..Len(Stages) : Stages[i] = at

Worker(j) ==
    \/ Progress10(j) \/ ExtractCV(j) \/ Progress20(j) \/ ExtractJobContent(j)
    \/ Progress30(j) \/ Progress50(j) \/ CallOllama(j, SystemTexts) \/ Progress70(j)
    \/ ParseResponse(j) \/ Progress85(j) \/ Launch(j) \/ SetContent(j) \/ PagePdf(j)
    \/ BrowserClose(j) \/ Progress100(j) \/ WorkerUpdateJob(j) \/ Return(j) \/ Catch(j)


\* -------------------------------------------------- the server: intake

Requests == [cv : {"text", "empty"}, job : {"text", "url", "blank", "both", "none"}]

\* POST /process without the two tests of the request.
ProcessWithoutValidation(j, file, req) ==
    /\ ipc[j] = "none"
    /\ upload' = [upload EXCEPT ![j] = file]
    /\ ipc' = [ipc EXCEPT ![j] = "createJob"]
    /\ input' = [input EXCEPT ![j] = req]
    /\ jobStatus' = [jobStatus EXCEPT ![j] =
           [status |-> "queued", progress |-> 0, step |-> "Uploading files...",
            error |-> "", completedAt |-> FALSE]]
    /\ UNCHANGED <<artifact, storeVars, queue, events, wpc, err, workerLocals, pollVars,
                   faults, attemptFault, ran, raisedAt, starts, cleaned>>

\* POST /process up to the first await: the upload middleware stores the
\* file, the request is validated, the status entry is set and createJob is
\* called.
Process(j, file, req) ==
    /\ ipc[j] = "none"
    /\ IF ~file
       THEN /\ ipc' = [ipc EXCEPT ![j] = "rejected"]
            /\ UNCHANGED <<input, upload, jobStatus>>
       ELSE /\ upload' = [upload EXCEPT ![j] = TRUE]
            /\ IF req.job = "none"
               THEN /\ ipc' = [ipc EXCEPT ![j] = "rejected"]
                    /\ UNCHANGED <<input, jobStatus>>
               ELSE /\ ipc' = [ipc EXCEPT ![j] = "createJob"]
                    /\ input' = [input EXCEPT ![j] = req]
                    /\ jobStatus' = [jobStatus EXCEPT ![j] =
                           [status |-> "queued", progress |-> 0, step |-> "Uploading files...",
                            error |-> "", completedAt |-> FALSE]]
    /\ UNCHANGED <<artifact, storeVars, queue, events, wpc, err, workerLocals, pollVars,
                   faults, attemptFault, ran, raisedAt, starts, cleaned>>

\* await JobDatabase.createJob(jobRecord): the row is inserted, or the store
\* fails and createJob returns null.
CreateJob(j) ==
    /\ ipc[j] = "createJob"
    /\ ipc' = [ipc EXCEPT ![j] = "add"]
    /\ \/ /\ db' = [db EXCEPT ![j] =
                       [status |-> "pending", progress |-> 0, step |-> "Uploading files...",
                        error |-> "", result |-> FALSE, completedAt |-> FALSE]]
          /\ NoFault
       \/ /\ InjectFault(j)
          /\ UNCHANGED db
    /\ UNCHANGED <<input, fileVars, jobStatus, dbWrites, queue, events, wpc, err, workerLocals,
                   pollVars, ran, raisedAt, starts, cleaned>>

\* await queue.add('generate-cv', payload, { attempts: 3, ... }), and the
\* catch block of the handler when it rejects.
QueueAdd(j) ==
    /\ ipc[j] = "add"
    /\ \/ /\ queue' = [queue EXCEPT ![j] = [NoJob EXCEPT !.state = "waiting"]]
          /\ ipc' = [ipc EXCEPT ![j] = "done"]
          /\ NoFault
          /\ UNCHANGED jobStatus
       \/ /\ InjectFault(j)
          /\ ipc' = [ipc EXCEPT ![j] = "error"]
          /\ jobStatus' = [jobStatus EXCEPT ![j] =
                 IF @.status = "absent" THEN @
                 ELSE [@ EXCEPT !.status = "failed", !.error = "queue connection lost"]]
          /\ UNCHANGED queue
    /\ UNCHANGED <<input, fileVars, storeVars, events, wpc, err, workerLocals, pollVars, ran,
                   raisedAt, starts, cleaned>>

\* ------------------------------------------ the server: queue event handlers

\* The handlers run in the order of the events.  Each sets the status entry
\* and calls updateJob without waiting for the handlers before it.
HandlerVars ==
    <<intakeVars, fileVars, db, queue, wpc, err, workerLocals, pollVars, faults, attemptFault,
      ran, raisedAt, starts, cleaned>>

\* queue.on('progress', ...)
OnProgress ==
    /\ events # <<>>
    /\ Head(events).type = "progress"
    /\ Cardinality(dbWrites) < MaxInflight
    /\ LET e == Head(events)
           step == IF e.step = "" THEN "Processing..." ELSE e.step
       IN  /\ jobStatus' = [jobStatus EXCEPT ![e.job] =
                  IF @.status = "absent" THEN @
                  ELSE [@ EXCEPT !.status = "processing", !.progress = e.progress,
                                 !.step = step]]
           /\ dbWrites' = dbWrites \cup {Update(e.job, "progress", e.progress, step, "")}
    /\ events' = Tail(events)
    /\ UNCHANGED HandlerVars

\* queue.on('completed', ...)
OnCompleted ==
    /\ events # <<>>
    /\ Head(events).type = "completed"
    /\ Cardinality(dbWrites) < MaxInflight
    /\ LET e == Head(events)
       IN  /\ jobStatus' = [jobStatus EXCEPT ![e.job] =
                  IF @.status = "absent" THEN @
                  ELSE [@ EXCEPT !.status = "completed", !.progress = 100,
                                 !.step = "Completed!", !.completedAt = TRUE]]
           /\ dbWrites' = dbWrites \cup {Update(e.job, "completed", 100, "Completed!", "")}
    /\ events' = Tail(events)
    /\ UNCHANGED HandlerVars

\* queue.on('failed', ...)
OnFailed ==
    /\ events # <<>>
    /\ Head(events).type = "failed"
    /\ Cardinality(dbWrites) < MaxInflight
    /\ LET e == Head(events)
       IN  /\ jobStatus' = [jobStatus EXCEPT ![e.job] =
                  IF @.status = "absent" THEN @
                  ELSE [@ EXCEPT !.status = "failed", !.error = e.error, !.step = "Failed"]]
           /\ dbWrites' = dbWrites \cup {Update(e.job, "failed", 0, "Failed", e.error)}
    /\ events' = Tail(events)
    /\ UNCHANGED HandlerVars

\* --------------------------------------- the server: GET /status/:jobId

PollVarsOnly ==
    <<intakeVars, fileVars, storeVars, queue, events, wpc, err, workerLocals, faults,
      attemptFault, ran, raisedAt, starts, cleaned>>

\* const status = jobStatus.get(jobId); 404 without an entry.
PollStart(j) ==
    /\ poll[j].pc = "none"
    /\ jobStatus[j].status # "absent"
    /\ poll' = [poll EXCEPT ![j] = [pc |-> "getJobs", status |-> jobStatus[j], progress |-> 0]]
    /\ UNCHANGED <<jobStatus, polled, PollVarsOnly>>

\* res.json({ ..., progress: currentStatus.progress, ... }); without an entry
\* currentStatus.id raises and the answer is 500.
Respond(j, entry) ==
    /\ poll' = [poll EXCEPT ![j] = NoPoll]
    /\ polled' = [polled EXCEPT ![j] = IF entry.status = "absent" THEN @ ELSE entry.progress]

\* await queue.getJobs(['waiting', 'active', 'completed', 'failed']) and
\* jobs.find(...): the job found keeps the progress it has now.
PollGetJobs(j) ==
    /\ poll[j].pc = "getJobs"
    /\ IF queue[j].state \in {"waiting", "active", "completed", "failed"}
       THEN /\ poll' = [poll EXCEPT ![j].pc = "getState", ![j].progress = queue[j].progress]
            /\ UNCHANGED polled
       ELSE Respond(j, jobStatus[j])
    /\ UNCHANGED <<jobStatus, PollVarsOnly>>

\* A poll whose branch for the queue state completed sets the status alone.
PollGetStateKeepingProgress(j) ==
    /\ poll[j].pc = "getState"
    /\ LET status == poll[j].status
           entry ==
               CASE queue[j].state = "completed" ->
                        [status EXCEPT !.status = "completed", !.completedAt = TRUE]
                 [] queue[j].state = "failed" ->
                        [status EXCEPT !.status = "failed",
                                       !.error = IF queue[j].failedReason = ""
                                                 THEN "Unknown error"
                                                 ELSE queue[j].failedReason]
                 [] queue[j].state = "active" ->
                        [status EXCEPT !.status = "processing", !.progress = poll[j].progress]
                 [] OTHER -> jobStatus[j]
       IN  /\ jobStatus' = [jobStatus EXCEPT ![j] = entry]
           /\ Respond(j, entry)
    /\ UNCHANGED PollVarsOnly

\* await queueJob.getState(), "Update our status based on queue state" from
\* the entry read at the start, and the answer.
PollGetState(j) ==
    /\ poll[j].pc = "getState"
    /\ LET status == poll[j].status
           entry ==
               CASE queue[j].state = "completed" ->
                        [status EXCEPT !.status = "completed", !.progress = 100,
                                       !.completedAt = TRUE]
                 [] queue[j].state = "failed" ->
                        [status EXCEPT !.status = "failed",
                                       !.error = IF queue[j].failedReason = ""
                                                 THEN "Unknown error"
                                                 ELSE queue[j].failedReason]
                 [] queue[j].state = "active" ->
                        [status EXCEPT !.status = "processing", !.progress = poll[j].progress]
                 [] OTHER -> jobStatus[j]
       IN  /\ jobStatus' = [jobStatus EXCEPT ![j] = entry]
           /\ Respond(j, entry)
    /\ UNCHANGED PollVarsOnly

\* ------------------------------- the server: GET /download/:type/:jobId

\* The values of :type a request may carry.
DownloadTypes == {"cover", "cv"}

\* The handler has no await: it answers from the state it finds.  404
\* without an entry, 400 unless the entry says completed, 400 unless the
\* type is cover, 404 unless out/<type>-<jobId>.pdf exists, and otherwise
\* res.download of the file.
Download(type, j) ==
    IF jobStatus[j].status = "absent" THEN [code |-> 404, file |-> FALSE]
    ELSE IF jobStatus[j].status # "completed" THEN [code |-> 400, file |-> FALSE]
    ELSE IF type # "cover" THEN [code |-> 400, file |-> FALSE]
    ELSE IF ~artifact[j] THEN [code |-> 404, file |-> FALSE]
    ELSE [code |-> 200, file |-> TRUE]

\* ------------------------------------ the server: DELETE /cleanup/:jobId

Cleanup(j) ==
    /\ jobStatus[j].status # "absent"
    /\ jobStatus' = [jobStatus EXCEPT ![j] = NoEntry]
    /\ artifact' = [artifact EXCEPT ![j] = FALSE]
    /\ cleaned' = [cleaned EXCEPT ![j] = TRUE]
    /\ UNCHANGED <<intakeVars, upload, storeVars, queue, events, wpc, err, workerLocals,
                   pollVars, faults, attemptFault, ran, raisedAt, starts>>

\* ------------------------------------------------ the server: restart

\* The server process ends and is started again: const jobStatus = new Map()
\* is empty again, the requests in progress are gone with their polls, and
\* the queue events and store requests the old process had not yet handled
\* or sent are either lost or have still gone out.
Restart ==
    /\ \E j \in Jobs : ipc[j] # "none"
    /\ jobStatus' = [j \in Jobs |-> NoEntry]
    /\ poll' = [j \in Jobs |-> NoPoll]
    /\ ipc' = [j \in Jobs |-> IF ipc[j] \in {"createJob", "add"} THEN "lost" ELSE ipc[j]]
    /\ \/ UNCHANGED events
       \/ events' = <<>>
    /\ \/ UNCHANGED dbWrites
       \/ dbWrites' = {}
    /\ UNCHANGED <<input, fileVars, db, queue, wpc, err, workerLocals, polled, faults,
                   attemptFault, ran, raisedAt, starts, cleaned>>

\* ----------------------------------------------------------------- system

\* The whole service: intake, queue runtime, worker, event handlers, store,
\* status polls and cleanup.
Next ==
    \/ \E j \in Jobs : \E file \in BOOLEAN, req \in Requests : Process(j, file, req)
    \/ \E j \in Jobs : CreateJob(j)
    \/ \E j \in Jobs : QueueAdd(j)
    \/ \E j \in Jobs : Dispatch(j)
    \/ \E j \in Jobs : Backoff(j)
    \/ \E j \in Jobs : Worker(j)
    \/ OnProgress
    \/ OnCompleted
    \/ OnFailed
    \/ \E w \in dbWrites : StoreApply(w)
    \/ \E j \in Jobs : PollStart(j)
    \/ \E j \in Jobs : PollGetJobs(j)
    \/ \E j \in Jobs : PollGetState(j)
    \/ \E j \in Jobs : Cleanup(j)

Spec == Init /\ [][Next]_vars

\* The job pipeline: the service without the status polls.  A poll writes
\* only jobStatus, poll and polled; the pipeline reads of them only whether
\* jobStatus has an entry, in the event handlers (which then write
\* jobStatus alone) and in cleanup (which writes artifact, jobStatus and
\* cleaned).  What SpecPipeline says of the upload, the queue, the worker and
\* the job record therefore holds of Spec.
NextPipeline ==
    \/ \E j \in Admitted : \E file \in BOOLEAN, req \in Requests : Process(j, file, req)
    \/ \E j \in Jobs : CreateJob(j)
    \/ \E j \in Jobs : QueueAdd(j)
    \/ \E j \in Jobs : Dispatch(j)
    \/ \E j \in Jobs : Backoff(j)
    \/ \E j \in Jobs : Worker(j)
    \/ OnProgress
    \/ OnCompleted
    \/ OnFailed
    \/ \E w \in dbWrites : StoreApply(w)
    \/ \E j \in Jobs : Cleanup(j)

SpecPipeline == Init /\ [][NextPipeline]_vars

\* The pipeline in which calls may fail, while the worker takes the waiting
\* jobs, every await of the processor returns or raises, the delay of a
\* retry passes, the server runs the handler of every event and the store
\* answers or refuses every request.
FairnessPipeline ==
    /\ \A j \in Jobs :
           /\ WF_vars(Dispatch(j))
           /\ WF_vars(Backoff(j))
           /\ WF_vars(Worker(j))
    /\ WF_vars(OnProgress)
    /\ WF_vars(OnCompleted)
    /\ WF_vars(OnFailed)
    /\ WF_vars(\E w \in dbWrites : StoreApply(w))

SpecLive == Init /\ [][NextPipeline]_vars /\ FairnessPipeline

\* A step in which every backend, the store and the queue connection answer.
Healthy(A) == A /\ faults' = faults

HealthyWorker(j) ==
    \/ Healthy(Progress10(j))
    \/ Healthy(ExtractCV(j))
    \/ Healthy(Progress20(j))
    \/ Healthy(ExtractJobContent(j))
    \/ Healthy(Progress30(j))
    \/ Healthy(Progress50(j))
    \/ Healthy(CallOllama(j, SystemTexts))
    \/ Healthy(Progress70(j))
    \/ Healthy(ParseResponse(j))
    \/ Healthy(Progress85(j))
    \/ Healthy(Launch(j))
    \/ Healthy(SetContent(j))
    \/ Healthy(PagePdf(j))
    \/ Healthy(BrowserClose(j))
    \/ Healthy(Progress100(j))
    \/ Healthy(WorkerUpdateJob(j))
    \/ Healthy(Return(j))
    \/ Healthy(Catch(j))

\* The pipeline while nothing fails.
NextHealthy ==
    \/ \E j \in Admitted : \E file \in BOOLEAN, req \in Requests : Process(j, file, req)
    \/ \E j \in Jobs : Healthy(CreateJob(j))
    \/ \E j \in Jobs : Healthy(QueueAdd(j))
    \/ \E j \in Jobs : Dispatch(j)
    \/ \E j \in Jobs : Backoff(j)
    \/ \E j \in Jobs : HealthyWorker(j)
    \/ OnProgress
    \/ OnCompleted
    \/ OnFailed
    \/ \E w \in dbWrites : Healthy(StoreApply(w))
    \/ \E j \in Jobs : Cleanup(j)

\* The worker takes the waiting jobs and every await of the processor
\* returns; the delay of a retry passes; the server runs the handler of
\* every event and the store answers every request.
Fairness ==
    /\ \A j \in Jobs :
           /\ WF_vars(Dispatch(j))
           /\ WF_vars(Backoff(j))
           /\ WF_vars(HealthyWorker(j))
    /\ WF_vars(OnProgress)
    /\ WF_vars(OnCompleted)
    /\ WF_vars(OnFailed)
    /\ WF_vars(\E w \in dbWrites : Healthy(StoreApply(w)))

SpecHealthy == Init /\ [][NextHealthy]_vars /\ Fairness

\* The pipeline while every call answers but the worker process may end and
\* be started again.
NextCrash ==
    \/ NextHealthy
    \/ Crash

SpecCrash == Init /\ [][NextCrash]_vars

\* The pipeline while every call answers but the server process may end and
\* be started again.
NextRestart ==
    \/ NextHealthy
    \/ Restart

SpecRestart == Init /\ [][NextRestart]_vars

\* The status endpoint: the polls of a job whose CV yields text and of one
\* whose CV yields none, while nothing else fails.
StatusRequests == {[cv |-> "text", job |-> "text"], [cv |-> "empty", job |-> "text"]}

StatusWorker(j) ==
    \/ Healthy(Progress10(j))
    \/ Healthy(ExtractCV(j))
    \/ Healthy(Progress20(j))
    \/ Healthy(ExtractJobContent(j))
    \/ Healthy(Progress30(j))
    \/ Healthy(Progress50(j))
    \/ Healthy(CallOllama(j, {GoodText}))
    \/ Healthy(Progress70(j))
    \/ Healthy(ParseResponse(j))
    \/ Healthy(Progress85(j))
    \/ Healthy(Launch(j))
    \/ Healthy(SetContent(j))
    \/ Healthy(PagePdf(j))
    \/ Healthy(BrowserClose(j))
    \/ Healthy(Progress100(j))
    \/ Healthy(WorkerUpdateJob(j))
    \/ Healthy(Return(j))
    \/ Healthy(Catch(j))

NextStatus ==
    \/ \E j \in Admitted : \E req \in StatusRequests : Process(j, TRUE, req)
    \/ \E j \in Jobs : Healthy(CreateJob(j))
    \/ \E j \in Jobs : Healthy(QueueAdd(j))
    \/ \E j \in Jobs : Dispatch(j)
    \/ \E j \in Jobs : Backoff(j)
    \/ \E j \in Jobs : StatusWorker(j)
    \/ OnProgress
    \/ OnCompleted
    \/ OnFailed
    \/ \E w \in dbWrites : Healthy(StoreApply(w))
    \/ \E j \in Jobs : PollStart(j)
    \/ \E j \in Jobs : PollGetJobs(j)
    \/ \E j \in Jobs : PollGetState(j)
    \/ \E j \in Jobs : Cleanup(j)

SpecStatus == Init /\ [][NextStatus]_vars

\* The worker pool: every job identifier has been submitted with a CV that
\* yields no text, and each job has failed twice and waits for its last
\* attempt, every event handled and every write stored.
InitPool ==
    /\ input = [j \in Jobs |-> [cv |-> "empty", job |-> "text"]]
    /\ ipc = [j \in Jobs |-> "done"]
    /\ upload = [j \in Jobs |-> FALSE]
    /\ artifact = [j \in Jobs |-> FALSE]
    /\ jobStatus = [j \in Jobs |->
           [status |-> "failed", progress |-> 10, step |-> "Failed",
            error |-> "Failed to extract text from PDF", completedAt |-> FALSE]]
    /\ db = [j \in Jobs |->
           [status |-> "failed", progress |-> 10, step |-> "Failed",
            error |-> "Failed to extract text from PDF", result |-> FALSE,
            completedAt |-> FALSE]]
    /\ dbWrites = {}
    /\ queue = [j \in Jobs |->
           [state |-> "waiting", attemptsMade |-> Attempts - 1, progress |-> 10,
            step |-> "Extracting CV text...",
            failedReason |-> "Failed to extract text from PDF"]]
    /\ events = <<>>
    /\ wpc = [j \in Jobs |-> "idle"]
    /\ err = [j \in Jobs |-> "Failed to extract text from PDF"]
    /\ gen = [j \in Jobs |-> NoText]
    /\ parsed = [j \in Jobs |-> EmptyObject]
    /\ jobContent = [j \in Jobs |-> "none"]
    /\ browsers = [j \in Jobs |-> 0]
    /\ poll = [j \in Jobs |-> NoPoll]
    /\ polled = [j \in Jobs |-> -1]
    /\ faults = 0
    /\ attemptFault = [j \in Jobs |-> FALSE]
    /\ ran = [j \in Jobs |-> {"p10", "extract"}]
    /\ raisedAt = [j \in Jobs |-> "extract"]
    /\ starts = [j \in Jobs |-> Attempts - 1]
    /\ cleaned = [j \in Jobs |-> FALSE]

\* The worker takes the jobs and runs their last attempts, which end in
\* step 1; the server handles the events.
NextPool ==
    \/ \E j \in Jobs : Dispatch(j)
    \/ \E j \in Jobs : Healthy(Progress10(j))
    \/ \E j \in Jobs : Healthy(ExtractCV(j))
    \/ \E j \in Jobs : Healthy(Catch(j))
    \/ OnProgress
    \/ OnFailed
    \/ \E w \in dbWrites : Healthy(StoreApply(w))

SpecPool == InitPool /\ [][NextPool]_vars

\* ------------------------------------------- step 5 on every raw text

\* Job 1 stands before step 5 of its first attempt, every event handled and
\* every write stored, with any raw text as the answer of the generation
\* backend.
InitParse ==
    /\ input = [j \in Jobs |-> IF j = 1 THEN [cv |-> "text", job |-> "text"] ELSE NoInput]
    /\ ipc = [j \in Jobs |-> IF j = 1 THEN "done" ELSE "none"]
    /\ upload = [j \in Jobs |-> j = 1]
    /\ artifact = [j \in Jobs |-> FALSE]
    /\ jobStatus = [j \in Jobs |->
           IF j = 1
           THEN [status |-> "processing", progress |-> 70, step |-> "Calling AI...",
                 error |-> "", completedAt |-> FALSE]
           ELSE NoEntry]
    /\ db = [j \in Jobs |->
           IF j = 1
           THEN [status |-> "processing", progress |-> 70, step |-> "Calling AI...",
                 error |-> "", result |-> FALSE, completedAt |-> FALSE]
           ELSE NoRow]
    /\ dbWrites = {}
    /\ queue = [j \in Jobs |->
           IF j = 1
           THEN [state |-> "active", attemptsMade |-> 0, progress |-> 70,
                 step |-> "Parsing AI response...", failedReason |-> ""]
           ELSE NoJob]
    /\ events = <<>>
    /\ wpc = [j \in Jobs |-> IF j = 1 THEN "parse" ELSE "idle"]
    /\ err = [j \in Jobs |-> ""]
    /\ \E d \in RawTexts : gen = [j \in Jobs |-> IF j = 1 THEN d ELSE NoText]
    /\ parsed = [j \in Jobs |-> EmptyObject]
    /\ jobContent = [j \in Jobs |-> IF j = 1 THEN "text" ELSE "none"]
    /\ browsers = [j \in Jobs |-> 0]
    /\ poll = [j \in Jobs |-> NoPoll]
    /\ polled = [j \in Jobs |-> -1]
    /\ faults = 0
    /\ attemptFault = [j \in Jobs |-> FALSE]
    /\ ran = [j \in Jobs |->
           IF j = 1 THEN {"p10", "extract", "p20", "job", "p30", "p50", "llm", "p70"} ELSE {}]
    /\ raisedAt = [j \in Jobs |-> ""]
    /\ starts = [j \in Jobs |-> IF j = 1 THEN 1 ELSE 0]
    /\ cleaned = [j \in Jobs |-> FALSE]

\* Step 5, the milestone after it and the launch of the renderer.
NextParse ==
    \/ \E j \in Jobs : ParseResponse(j)
    \/ \E j \in Jobs : Progress85(j)
    \/ \E j \in Jobs : Launch(j)

SpecParse == InitParse /\ [][NextParse]_vars

\* ------------------------------------------------- claims about step 5

\* C2: whatever the raw text of the generation backend is, step 5 does not
\* raise: once it has run, the attempt holds a parse result, and if the
\* attempt is in its catch block it is another step that raised.
C2_ParsingNeverRaises ==
    \A j \in Jobs :
        "parse" \in ran[j] => /\ raisedAt[j] # "parse"
                              /\ parsed[j] # EmptyObject
                              /\ (raisedAt[j] = "" => wpc[j] \in {"p85", "launch", "page"})

\* The renderer has been launched for an attempt whose raw text JSON.parse
\* refused, so that the catch block of step 5 built the result.
C2_RenderingAfterFallback ==
    \E j \in Jobs :
        /\ wpc[j] = "page"
        /\ raisedAt[j] = ""
        /\ ParseAIResponse(GeneratedText(gen[j])).path = "fallback"

\* C3: whatever the raw text is, the coverLetter of the result of step 5 is
\* a string and is not empty.
C3_CoverLetterIsNonEmptyString ==
    \A j \in Jobs :
        ("parse" \in ran[j] /\ raisedAt[j] # "parse")
            => parsed[j].coverLetter.t = "str" /\ parsed[j].coverLetter.v # <<>>

\* C4: whatever the raw text is, the answer of the result of step 5 counts
\* at least 100 words, as answer.split(' ') counts them.
C4_AnswerHasHundredWords ==
    \A j \in Jobs :
        ("parse" \in ran[j] /\ raisedAt[j] # "parse")
            => parsed[j].answer.t = "str" /\ SplitLength(parsed[j].answer.v) >= MinAnswerWords

\* C5: when the raw text holds a well-formed JSON object whose coverLetter
\* and question are non-empty strings and whose answer is a string of at
\* least 100 words, with whatever text before or after it, the result of
\* step 5 is exactly these three values.
C5_RoundTrip ==
    \A j \in Jobs :
        ( /\ "parse" \in ran[j]
          /\ raisedAt[j] # "parse"
          /\ gen[j].kind = "object"
          /\ gen[j].cut = 0
          /\ gen[j].cl.t = "str" /\ gen[j].cl.v # <<>>
          /\ gen[j].q.t = "str" /\ gen[j].q.v # <<>>
          /\ gen[j].a.t = "str" /\ SplitLength(gen[j].a.v) >= MinAnswerWords )
            => parsed[j] = [coverLetter |-> gen[j].cl, question |-> gen[j].q,
                            answer |-> gen[j].a]

\* --------------------------------------------- claims about the pipeline

C6_RaiseEndsAttempt ==
    \A j \in Jobs :
        raisedAt[j] # ""
            => /\ \A at \in ran[j] : StageIndex(at) <= StageIndex(raisedAt[j])
               /\ wpc[j] \in {"catch", "idle"}
               /\ wpc[j] = "idle"
                    => /\ ~upload[j]
                       /\ queue[j].failedReason = err[j]
                       /\ queue[j].attemptsMade = starts[j]
                       /\ queue[j].state \in {"delayed", "waiting", "failed"}

\* The first attempt has failed on the generation call: steps 1 to the call
\* have run and no other, the file is deleted, the queue holds the error.
C6_GenerationCallRaised ==
    \E j \in Jobs :
        /\ raisedAt[j] = "llm"
        /\ wpc[j] = "idle"
        /\ ran[j] = {"p10", "extract", "p20", "job", "p30", "p50", "llm"}
        /\ ~upload[j]
        /\ queue[j].failedReason = "fetch failed"
        /\ queue[j].attemptsMade = 1

\* C7: a retry attempt of a job whose CV yields text raises only when a
\* backend, the store or the queue fails during that attempt, so that a
\* retry in which everything answers completes the job.
C7_RetryFailsOnlyOnFault ==
    \A j \in Jobs :
        (/\ queue[j].attemptsMade >= 1
         /\ input[j].cv = "text"
         /\ wpc[j] = "catch")
            => attemptFault[j]

\* C8: once the queue has given the job up after its last attempt and the
\* job record has status failed, the status of the record stays failed.
C8_FailedStaysFailed ==
    [][\A j \in Jobs :
          (queue[j].state = "failed" /\ db[j].status = "failed")
              => db'[j].status = "failed"]_vars

\* C9: the progress of the job record never decreases.
C9_ProgressNeverDecreases ==
    [][\A j \in Jobs : db'[j].progress >= db[j].progress]_vars

\* C10: once the job record has status completed, no step changes its
\* status or its progress.
C10_CompletedIsFinal ==
    [][\A j \in Jobs :
          db[j].status = "completed"
              => db'[j].status = "completed" /\ db'[j].progress = db[j].progress]_vars

\* C11: once the job record has status failed, no step changes its status,
\* its progress or its error message (a cleanup request leaves the stored
\* record alone).
C11_FailedIsFinal ==
    [][\A j \in Jobs :
          db[j].status = "failed"
              => /\ db'[j].status = "failed"
                 /\ db'[j].progress = db[j].progress
                 /\ db'[j].error = db[j].error]_vars

\* C12: when an attempt stands before the launch of the renderer and the
\* file out/cover-<jobId>.pdf of its job exists, the renderer is not
\* launched: the attempt does not go on to newPage and setContent.
C12_NoSecondRendering ==
    [][\A j \in Jobs :
          (artifact[j] /\ wpc[j] = "launch") => wpc'[j] # "page"]_vars

\* C13: an attempt whose CV extraction yields no text raises in step 1 with
\* the message of the extraction step; no attempt of such a job calls the
\* generation backend or launches the renderer; and the job record of such
\* a job, once the job is in the queue, eventually has status failed with
\* an extraction error message.
C13_EmptyCvFails ==
    /\ [](\A j \in Jobs :
            input[j].cv = "empty"
                => /\ "llm" \notin ran[j]
                   /\ "launch" \notin ran[j]
                   /\ ~artifact[j]
                   /\ (starts[j] = 1 /\ "extract" \in ran[j])
                        => /\ raisedAt[j] = "extract"
                           /\ err[j] = "No text could be extracted from the CV PDF")
    /\ \A j \in Jobs :
           (queue[j].state = "waiting" /\ input[j].cv = "empty")
               ~> (/\ db[j].status = "failed"
                   /\ db[j].error \in {"No text could be extracted from the CV PDF",
                                       "Failed to extract text from PDF"})

\* The first attempt of a job whose CV yields no text has ended in step 1
\* and the failed handler's write has reached the job record.
C13_EmptyCvRecordedFailed ==
    \E j \in Jobs :
        /\ input[j].cv = "empty"
        /\ starts[j] = 1
        /\ ran[j] = {"p10", "extract"}
        /\ wpc[j] = "idle"
        /\ db[j].status = "failed"
        /\ db[j].error = "No text could be extracted from the CV PDF"

\* C14: an attempt whose generation call failed at the network level, or
\* was answered with an error status, runs neither the parsing step nor a
\* rendering step nor the final store write, and leaves no cover file.
C14_BackendFailureEndsAttempt ==
    \A j \in Jobs :
        ("llm" \in ran[j] /\ (raisedAt[j] = "llm" \/ gen[j] = ErrorText))
            => /\ ran[j] \cap {"parse", "launch", "page", "pdf", "updateJob"} = {}
               /\ ~artifact[j]

\* C15: an attempt whose job content comes from the job URL and is the
\* empty string, no article having been found, does not call the generation
\* backend.
C15_EmptyJobContentEndsAttempt ==
    \A j \in Jobs :
        (input[j].job = "blank" /\ jobContent[j] = "empty") => "llm" \notin ran[j]

\* C16: the steps an attempt has run are always the first k steps of the
\* processor, the attempt stands before step k+1 (or in the catch block of
\* step k that raised), so that no step begins before the one before it has
\* returned; and the progress of the queue job changes only to 10 at the
\* start of an attempt and then from each milestone of 10, 20, 30, 50, 70,
\* 85, 100 to the next, each change announced by a progress event.
C16_StagesInOrder ==
    /\ [](\A j \in Jobs :
            \E k \in 0..Len(Stages) :
                /\ ran[j] = {Stages[i] : i \in 1..k}
                /\ wpc[j] \notin {"idle", "catch"} => (k < Len(Stages) /\ wpc[j] = Stages[k + 1])
                /\ wpc[j] = "catch" => (k >= 1 /\ raisedAt[j] = Stages[k]))
    /\ [][\A j \in Jobs :
            queue'[j].progress # queue[j].progress
                => /\ \/ wpc[j] = "p10" /\ queue'[j].progress = 10
                      \/ <<queue[j].progress, queue'[j].progress>> \in
                             {<<10, 20>>, <<20, 30>>, <<30, 50>>, <<50, 70>>, <<70, 85>>,
                              <<85, 100>>}
                   /\ Len(events') = Len(events) + 1
                   /\ events'[Len(events')].type = "progress"
                   /\ events'[Len(events')].job = j
                   /\ events'[Len(events')].progress = queue'[j].progress]_vars

\* An attempt has run every step of the processor and returned, the queue
\* job standing at the last milestone.
C16_AttemptRanEveryStage ==
    \E j \in Jobs :
        /\ ran[j] = {Stages[i] : i \in 1..Len(Stages)}
        /\ wpc[j] = "idle"
        /\ raisedAt[j] = ""
        /\ queue[j].progress = 100
        /\ queue[j].state = "completed"

\* C17: when an attempt stands before the call of a stage, the progress of
\* the job record is the milestone of that stage: 10 before the CV
\* extraction, 20 before the job content, 50 before the generation call,
\* 85 before the launch of the renderer.
C17_MilestoneStoredBeforeStage ==
    \A j \in Jobs :
        /\ wpc[j] = "extract" => db[j].progress = 10
        /\ wpc[j] = "job" => db[j].progress = 20
        /\ wpc[j] = "llm" => db[j].progress = 50
        /\ wpc[j] = "launch" => db[j].progress = 85

\* C18: at every moment at most 2 attempts are being processed, and the
\* worker starts an attempt only while fewer than 2 are being processed.
C18_AtMostTwoAttempts ==
    /\ [](Cardinality({j \in Jobs : wpc[j] # "idle"}) <= Concurrency)
    /\ [][\A j \in Jobs :
            starts'[j] # starts[j]
                => Cardinality({k \in Jobs : wpc[k] # "idle"}) < Concurrency]_vars

\* Two attempts are being processed while a third job waits in the queue.
C18_ThirdJobWaits ==
    \E j \in Jobs :
        /\ queue[j].state = "waiting"
        /\ wpc[j] = "idle"
        /\ Cardinality({k \in Jobs \ {j} : wpc[k] # "idle" /\ queue[k].state = "active"}) = 2

\* C19: at no moment are two updates of the record of one job on their way
\* to the store.
C19_OneWriteInFlight ==
    \A j \in Jobs : Cardinality({w \in dbWrites : w.job = j}) <= 1

\* C20: when the raw text is prose without JSON and not blank, the
\* coverLetter of the result of step 5 is a string that holds a word of the
\* prose.
C20_LetterDerivedFromProse ==
    \A j \in Jobs :
        ( /\ "parse" \in ran[j]
          /\ raisedAt[j] # "parse"
          /\ gen[j].kind = "prose"
          /\ \E i \in 1..Len(gen[j].prose) : ~IsSpace(gen[j].prose[i]) )
            => /\ parsed[j].coverLetter.t = "str"
               /\ \E i \in 1..Len(gen[j].prose) :
                      /\ ~IsSpace(gen[j].prose[i])
                      /\ Includes(parsed[j].coverLetter.v, <<gen[j].prose[i]>>)

\* C21: a cleanup request for a job the queue has completed or given up
\* leaves no status entry, no stored job record and no cover file of the job.
C21_CleanupRemovesRecord ==
    [][\A j \in Jobs :
          (/\ ~cleaned[j]
           /\ cleaned'[j]
           /\ queue[j].state \in {"completed", "failed"})
              => /\ jobStatus'[j] = NoEntry
                 /\ ~artifact'[j]
                 /\ db'[j].status = "absent"]_vars

\* C22: a job that has been submitted and not cleaned up has a status
\* entry, so that GET /status/<jobId> answers with its status and not with
\* 404, also after a restart of the server.
C22_StatusSurvivesRestart ==
    \A j \in Jobs :
        (ipc[j] = "done" /\ ~cleaned[j]) => jobStatus[j].status # "absent"

\* C23: an attempt that is being processed eventually ends, and an attempt
\* ends only by the return of the processor, the queue then holding the job
\* as completed, or by its catch block after a step has raised, the queue
\* then holding it as delayed for a retry or as failed.
C23_AttemptsEnd ==
    /\ \A j \in Jobs :
           (wpc[j] # "idle")
               ~> (wpc[j] = "idle" /\ queue[j].state \in {"completed", "delayed", "failed"})
    /\ [][\A j \in Jobs :
            (wpc[j] # "idle" /\ wpc'[j] = "idle")
                => \/ /\ wpc[j] = "return"
                      /\ raisedAt[j] = ""
                      /\ queue'[j].state = "completed"
                   \/ /\ wpc[j] = "catch"
                      /\ raisedAt[j] # ""
                      /\ queue'[j].state \in {"delayed", "failed"}]_vars

\* The third attempt of a job has ended in its catch block and the queue
\* has given the job up.
C23_LastAttemptEnded ==
    \E j \in Jobs :
        /\ starts[j] = Attempts
        /\ wpc[j] = "idle"
        /\ raisedAt[j] # ""
        /\ queue[j].state = "failed"
        /\ queue[j].attemptsMade = Attempts

\* C24: whenever the job record has status failed it holds an error
\* message, and whenever the status entry, which is what a status poll
\* returns, has status failed it holds an error message.
C24_FailedHasMessage ==
    \A j \in Jobs :
        /\ db[j].status = "failed" => db[j].error # ""
        /\ jobStatus[j].status = "failed" => jobStatus[j].error # ""
        /\ (poll[j].pc # "none" /\ poll[j].status.status = "failed")
               => poll[j].status.error # ""

\* The queue has given the job up, the failed handler's write is stored and
\* a status poll has answered from the failed entry.
C24_FailedPolled ==
    \E j \in Jobs :
        /\ queue[j].state = "failed"
        /\ db[j].status = "failed"
        /\ db[j].error = "Failed to extract text from PDF"
        /\ jobStatus[j].status = "failed"
        /\ jobStatus[j].error = "Failed to extract text from PDF"
        /\ polled[j] # -1
        /\ poll[j].pc = "none"

\* C25: the uploaded CV of a job is deleted only by a step after which the
\* queue has given the job up, or by an attempt whose CV extraction has
\* returned text.
C25_UploadKeptForRetry ==
    [][\A j \in Jobs :
          (upload[j] /\ ~upload'[j])
              => \/ queue'[j].state = "failed"
                 \/ /\ "extract" \in ran[j]
                    /\ raisedAt[j] # "extract"
                    /\ input[j].cv = "text"]_vars

\* C26: the payload POST /process puts in the queue carries no custom
\* question, so the result of step 5 of every job holds neither a question
\* nor an answer.
C26_LetterOnlyResult ==
    \A j \in Jobs :
        ("parse" \in ran[j] /\ raisedAt[j] # "parse")
            => /\ parsed[j].question = Undefined
               /\ parsed[j].answer = Undefined

\* C27: when the raw text is taken for truncated and rebuilt, and it holds
\* the whole answer value of the object the backend wrote, the answer of
\* the result of step 5 is that value (with the padding appended if it is
\* short) and not the filler answer.
C27_AnswerRecovered ==
    \A j \in Jobs :
        ( /\ "parse" \in ran[j]
          /\ raisedAt[j] # "parse"
          /\ gen[j].kind = "object"
          /\ gen[j].cut = 0
          /\ gen[j].a.t = "str"
          /\ ParseAIResponse(GeneratedText(gen[j])).path = "reconstructed" )
            => parsed[j].answer = Str(ExpandAnswer(gen[j].a.v))

\* C28: once step 2 of an attempt has returned, the job content is the job
\* text when a job text was given, with or without a URL, and what the page
\* of the URL yields otherwise; and step 2 raises only when it fetches, that
\* is when a URL and no text was given.
C28_JobTextPreferred ==
    \A j \in Jobs :
        /\ ("job" \in ran[j] /\ raisedAt[j] # "job")
               => jobContent[j] = CASE input[j].job \in {"text", "both"} -> "text"
                                    [] input[j].job = "url" -> "article"
                                    [] input[j].job = "blank" -> "empty"
        /\ raisedAt[j] = "job" => input[j].job \in {"url", "blank"}
        /\ ("job" \notin ran[j] /\ wpc[j] # "idle") => jobContent[j] = "none"

\* An attempt of a job given with both a URL and a text has passed step 2
\* with the text as job content.
C28_BothGivenTextUsed ==
    \E j \in Jobs :
        /\ input[j].job = "both"
        /\ "job" \in ran[j]
        /\ wpc[j] = "p30"
        /\ jobContent[j] = "text"

\* C29: a request without a CV file, or with neither job URL nor job text,
\* is rejected and leaves no status entry, no job record, no queue job and
\* no attempt; and every job in the queue was submitted with a job URL or a
\* job text.
C29_InvalidRequestRejected ==
    \A j \in Jobs :
        /\ ipc[j] = "rejected"
               => /\ jobStatus[j] = NoEntry
                  /\ db[j] = NoRow
                  /\ queue[j] = NoJob
                  /\ starts[j] = 0
                  /\ input[j] = NoInput
                  /\ \A w \in dbWrites : w.job # j
        /\ queue[j].state # "none"
               => /\ ipc[j] = "done"
                  /\ input[j].cv # "none"
                  /\ input[j].job # "none"

\* A request with a CV file and neither job URL nor job text has been
\* rejected: the file is stored and nothing else is left of the request.
C29_RejectedWithFile ==
    \E j \in Jobs :
        /\ ipc[j] = "rejected"
        /\ upload[j]
        /\ queue[j] = NoJob

\* C30: when POST /process comes to add the job to the queue the job record
\* exists with status pending and progress 0, and whenever the job is in
\* the queue, or an update of its record is on its way to the store, the
\* record exists.
C30_RecordCreatedBeforeQueued ==
    \A j \in Jobs :
        /\ ipc[j] = "add" => (db[j].status = "pending" /\ db[j].progress = 0)
        /\ queue[j].state # "none" => db[j].status # "absent"
        /\ (\E w \in dbWrites : w.job = j) => db[j].status # "absent"

\* C31: a job is completed, in its record or in its status entry (which a
\* status poll answers with), only when the rendering step of the attempt
\* has written out/cover-<jobId>.pdf: the step has run without raising and
\* the file is there unless a cleanup has removed it since.
C31_CompletedHasArtifact ==
    \A j \in Jobs :
        (db[j].status = "completed" \/ jobStatus[j].status = "completed")
            => /\ "pdf" \in ran[j]
               /\ raisedAt[j] # "pdf"
               /\ artifact[j] \/ cleaned[j]

\* The record and the polled status entry say completed and the file exists.
C31_CompletedEverywhere ==
    \E j \in Jobs :
        /\ db[j].status = "completed"
        /\ jobStatus[j].status = "completed"
        /\ polled[j] = 100
        /\ artifact[j]

\* C32: a job that is completed has progress 100, in its status entry and
\* in its record, however the worker's write, the handlers' writes and the
\* status polls interleave.
C32_CompletedIsHundred ==
    \A j \in Jobs :
        /\ jobStatus[j].status = "completed" => jobStatus[j].progress = 100
        /\ db[j].status = "completed" => db[j].progress = 100

\* A poll that read the entry before the last milestone has set the entry
\* to completed, while a progress update of the job is still on its way to
\* the store of a record already completed.
C32_CompletedByStalePoll ==
    \E j \in Jobs :
        /\ jobStatus[j].status = "completed"
        /\ jobStatus[j].step # "Completed!"
        /\ db[j].status = "completed"
        /\ \E w \in dbWrites : w.job = j /\ w.kind = "progress"

\* C33: once DELETE /cleanup/<jobId> has succeeded for a job, the file
\* out/cover-<jobId>.pdf of that job does not exist.
C33_NoArtifactAfterCleanup ==
    \A j \in Jobs : cleaned[j] => ~artifact[j]

\* C34: once DELETE /cleanup/<jobId> has succeeded for a job, the job has no
\* in-memory status entry: no handler of a queue event and no status poll
\* that was in progress sets one, so a poll started later finds none.
C34_NoEntryAfterCleanup ==
    \A j \in Jobs : cleaned[j] => jobStatus[j].status = "absent"

\* C35: when a status poll writes the status entry of a job after its
\* awaits, the fields a queue event handler has written in the meantime are
\* kept: the step always, and the progress, the error and completedAt
\* wherever the poll does not set that field itself.
C35_PollKeepsHandlerFields ==
    [][\A j \in Jobs :
          (/\ poll[j].pc = "getState"
           /\ poll'[j].pc = "none"
           /\ jobStatus[j].status # "absent")
              => /\ jobStatus'[j].step = jobStatus[j].step
                 /\ queue[j].state = "failed" =>
                        jobStatus'[j].progress = jobStatus[j].progress
                 /\ queue[j].state # "failed" => jobStatus'[j].error = jobStatus[j].error
                 /\ queue[j].state # "completed" =>
                        jobStatus'[j].completedAt = jobStatus[j].completedAt]_vars

\* C36: a download request is answered with the file only when the job has
\* a status entry that says completed, the type is cover and the file
\* exists, and with an error otherwise; so no file is served for a job that
\* is not completed in the queue or that has been cleaned up.
C36_ServedOnlyWhenCompleted ==
    \A j \in Jobs : \A type \in DownloadTypes :
        /\ Download(type, j).file <=>
               (jobStatus[j].status = "completed" /\ type = "cover" /\ artifact[j])
        /\ ~Download(type, j).file => Download(type, j).code \in {400, 404}
        /\ Download(type, j).file => (queue[j].state = "completed" /\ ~cleaned[j])

\* C37: a store operation that fails raises nothing to its caller.  When
\* createJob fails the handler of POST /process goes on to queue.add with no
\* record written; when the worker's final updateJob fails the attempt goes
\* on to its return with the record unchanged and not completed, and the
\* attempt that returns ends as completed in the queue; when an updateJob
\* of an event handler fails nothing but the request is lost; getJob
\* answers null.
C37_StoreFailureNeverRaises ==
    /\ [](\A j \in Jobs :
             /\ ~GetJob(j, TRUE).raised /\ GetJob(j, TRUE).value = NoRow
             /\ ~GetJob(j, FALSE).raised)
    /\ [][\A j \in Jobs :
             /\ (ipc[j] = "createJob" /\ ipc'[j] # "createJob" /\ faults' # faults)
                    => (ipc'[j] = "add" /\ db' = db /\ db[j].status = "absent")
             /\ (wpc[j] = "updateJob" /\ wpc'[j] # "updateJob" /\ faults' # faults)
                    => (wpc'[j] = "return" /\ db' = db /\ db[j].status # "completed")
             /\ (wpc[j] = "return" /\ wpc'[j] # "return")
                    => (wpc'[j] = "idle" /\ queue'[j].state = "completed")
             /\ (dbWrites' # dbWrites /\ dbWrites' \subseteq dbWrites /\ faults' # faults)
                    => (db' = db /\ wpc' = wpc /\ ipc' = ipc /\ queue' = queue)]_vars

\* The attempt has ended as completed although its final updateJob failed:
\* the record exists, holds no result and does not say completed.
C37_CompletedWithoutRecordUpdate ==
    \E j \in Jobs :
        /\ queue[j].state = "completed"
        /\ db[j].status \notin {"absent", "completed"}
        /\ ~db[j].result
        /\ faults = 1 /\ attemptFault[j]
        /\ raisedAt[j] = ""

\* C38: no attempt ends with a browser it launched still open: while the
\* processor is not running for a job, no browser of that job is open.
C38_NoBrowserLeftOpen ==
    \A j \in Jobs : wpc[j] = "idle" => browsers[j] = 0

\* C39: the CV file stored by the upload middleware is deleted in each of the
\* ends of a request: when POST /process has rejected it, when queue.add has
\* failed, and when the job has ended as completed or failed.  The first
\* two ends are the last step that concerns the file, so the file must be
\* gone when they are reached.
C39_UploadDeleted ==
    \A j \in Jobs :
        (\/ ipc[j] \in {"rejected", "error"}
         \/ queue[j].state \in {"completed", "failed"})
            => ~upload[j]
====
